---- MODULE Spec2Model ----
(***************************************************************************)
(* L2 dashboard (src/main.py): a Streamlit script that fetches TVL series  *)
(* from DefiLlama and analytics series from Dune for two chains, merges    *)
(* them by date and renders the comparison.  The script runs top to        *)
(* bottom; the three fetch/query functions are memoised by st.cache_data   *)
(* with a time-to-live.                                                    *)
(*                                                                         *)
(* Strings that the code searches ("paid plan" in str(e).lower()) are      *)
(* modelled as the set of phrases they contain.  A pandas DataFrame is a   *)
(* record [cols, rows, text]: its column names, its rows in order, and the *)
(* columns whose values are text and not numbers.                          *)
(***************************************************************************)
EXTENDS Integers, Sequences, FiniteSets, TLC

Chains == {"arbitrum", "optimism"}

ttl == 3600

SecondsPerDay == 86400

\* Bounds of the model.
MaxTime == 5400

TickStep == 1800

MaxCalls == 3

MaxLen == 2

MaxDay == 2

-----------------------------------------------------------------------------
(* Python values: results of calls, exceptions, data frames *)

Return(v) == [ok |-> TRUE, val |-> v]

Raise(type, text) == [ok |-> FALSE, exc |-> [type |-> type, text |-> text]]

\* The classes of requests.exceptions.RequestException that the calls raise.
RequestExceptions == {"ConnectionError", "HTTPError", "RequestsJSONDecodeError"}

\* pd.DataFrame()
EmptyFrame == [cols |-> {}, rows |-> <<>>, text |-> {}]

\* pd.DataFrame(columns=['date', 'tvl_usd'])
EmptyTvlFrame == [cols |-> {"date", "tvl_usd"}, rows |-> <<>>, text |-> {}]

\* DataFrame.empty: any axis of length 0
IsEmpty(df) == df.cols = {} \/ Len(df.rows) = 0

\* pd.DataFrame(list of dicts): the columns are the keys of the items
DataFrame(items, text) ==
    [cols |-> UNION {DOMAIN items[i] : i \in 1..Len(items)},
     rows |-> items,
     text |-> text]

\* pd.to_datetime(..., unit='s').dt.date and pd.to_datetime(...).dt.date:
\* the calendar day of an instant given in seconds
ToDate(ts) == ts \div SecondsPerDay

\* df['date'] = <conversion of df['date']>
ConvertDate(df) ==
    [df EXCEPT !.rows = [i \in 1..Len(df.rows) |->
                            [df.rows[i] EXCEPT !.date = ToDate(@)]]]

\* df.rename(columns={old: new}, inplace=True): no error when old is absent
RenameColumn(row, old, new) ==
    [k \in ((DOMAIN row) \ {old}) \cup (IF old \in DOMAIN row THEN {new} ELSE {}) |->
        IF k = new /\ old \in DOMAIN row THEN row[old] ELSE row[k]]

Rename(df, old, new) ==
    [cols |-> (df.cols \ {old}) \cup (IF old \in df.cols THEN {new} ELSE {}),
     rows |-> [i \in 1..Len(df.rows) |-> RenameColumn(df.rows[i], old, new)],
     text |-> df.text]

Dates(df) == {df.rows[i].date : i \in 1..Len(df.rows)}

UniqueDates(df) ==
    \A i, j \in 1..Len(df.rows) : df.rows[i].date = df.rows[j].date => i = j

SortedByDate(df) ==
    \A i, j \in 1..Len(df.rows) : i < j => df.rows[i].date < df.rows[j].date

-----------------------------------------------------------------------------
(* fetch_defi_llama_tvl: the function body, given the provider's answer *)

\* What the HTTP call to api.llama.fi can produce: no response at all, or
\* a response with a status and a body.  A body that is not JSON makes
\* response.json() raise requests' JSONDecodeError (a RequestException) or,
\* with a requests release before 2.27, json's (a ValueError): the source
\* pins no release, so both are outcomes.
TvlItem(ts, v) == [date |-> ts, totalLiquidityUSD |-> v]

TvlArrays ==
    { <<TvlItem(0, 10)>>,
      <<TvlItem(0, 10), TvlItem(SecondsPerDay, 20)>>,
      <<TvlItem(SecondsPerDay, 20), TvlItem(0, 10)>>,
      <<TvlItem(0, 10), TvlItem(SecondsPerDay \div 24, 11)>>,
      <<>>,
      <<[totalLiquidityUSD |-> 10]>> }

TvlResponses ==
    { [kind |-> "conn_error"],
      [kind |-> "response", status |-> 500, body |-> [type |-> "object"]],
      [kind |-> "response", status |-> 200,
       body |-> [type |-> "not_json", raises |-> "RequestsJSONDecodeError"]],
      [kind |-> "response", status |-> 200,
       body |-> [type |-> "not_json", raises |-> "ValueError"]],
      [kind |-> "response", status |-> 200, body |-> [type |-> "object"]] }
    \cup { [kind |-> "response", status |-> 200, body |-> [type |-> "array", items |-> a]] :
             a \in TvlArrays }

\* requests.get, raise_for_status, response.json, pd.DataFrame, the date
\* conversion and the rename, each raising as the library does
fetch_body(resp) ==
    IF resp.kind = "conn_error" THEN Raise("ConnectionError", {})
    ELSE IF resp.status >= 400 THEN Raise("HTTPError", {})
    ELSE IF resp.body.type = "not_json" THEN Raise(resp.body.raises, {})
    ELSE IF resp.body.type = "object" THEN Raise("ValueError", {"all scalar values"})
    ELSE LET df == DataFrame(resp.body.items, {}) IN
         IF "date" \notin df.cols THEN Raise("KeyError", {"date"})
         ELSE Return(Rename(ConvertDate(df), "totalLiquidityUSD", "tvl_usd"))

\* try: ... except requests.exceptions.RequestException: return the empty frame
fetch_defi_llama_tvl(resp) ==
    LET r == fetch_body(resp) IN
    IF ~r.ok /\ r.exc.type \in RequestExceptions THEN Return(EmptyTvlFrame)
    ELSE r

-----------------------------------------------------------------------------
(* query_dune_api_by_id and query_dune_api_by_sql: the function bodies *)

DuneRow(ts, tx, gas) ==
    [date |-> ts, daily_active_users |-> 50000,
     transaction_count |-> tx, avg_gas_fee_usd |-> gas]

\* Row sets the backend returns (the queries ORDER BY date DESC).  In the
\* last one the fee column is text ("n/a"): the column is named in `text`
\* and the numbers in it stand for values that are never read as numbers.
DuneRowSets ==
    { [rows |-> <<>>, text |-> {}],
      [rows |-> <<DuneRow(SecondsPerDay, 7, 3)>>, text |-> {}],
      [rows |-> <<DuneRow(SecondsPerDay, 7, 3), DuneRow(0, 5, 3)>>, text |-> {}],
      [rows |-> <<DuneRow(SecondsPerDay, 7, 3), DuneRow(0, 5, 4)>>, text |-> {}],
      [rows |-> <<DuneRow(2 * SecondsPerDay, 7, 3)>>, text |-> {}],
      [rows |-> <<DuneRow(SecondsPerDay, 7, 0), DuneRow(0, 5, 0)>>,
       text |-> {"avg_gas_fee_usd"}] }

\* The backend's errors: the phrases of the message, and whether the backend
\* refused because the account's tier does not allow the call.
DuneErrors ==
    { [kind |-> "error", text |-> {"paid plan"}, tier |-> TRUE],
      [kind |-> "error", text |-> {"upgrade"}, tier |-> TRUE],
      [kind |-> "error", text |-> {"timeout"}, tier |-> FALSE] }

\* What dune_client.run_query_dataframe can produce.
ByIdResponses ==
    { [kind |-> "frame", data |-> d] : d \in DuneRowSets } \cup DuneErrors

\* What dune_client.run_sql can produce: a result object carrying the rows
\* under one of the attribute paths the code probes, or under none.
SomeRows == [rows |-> <<DuneRow(SecondsPerDay, 7, 3), DuneRow(0, 5, 4)>>, text |-> {}]

BySqlResponses ==
    { [kind |-> "result", text |-> d.text, obj |-> [result |-> [rows |-> d.rows]]] :
        d \in DuneRowSets }
    \cup { [kind |-> "result", text |-> {},
            obj |-> [result |-> [data |-> [rows |-> SomeRows.rows]]]],
           [kind |-> "result", text |-> {}, obj |-> [get_rows |-> SomeRows.rows]],
           [kind |-> "result", text |-> {}, obj |-> [rows |-> SomeRows.rows]],
           [kind |-> "result", text |-> {}, obj |-> [state |-> "PENDING"]] }
    \cup DuneErrors

HasAttr(obj, name) == name \in DOMAIN obj

\* if not results_df.empty and 'date' in results_df.columns: normalise it
NormaliseDate(df) ==
    IF ~IsEmpty(df) /\ "date" \in df.cols THEN ConvertDate(df) ELSE df

query_dune_api_by_id(client, query_id, resp) ==
    IF ~client THEN Return(EmptyFrame)
    ELSE IF resp.kind = "error"
         THEN Raise("Exception", {"dune api error for query id"} \cup resp.text)
         ELSE Return(NormaliseDate(DataFrame(resp.data.rows, resp.data.text)))

\* rows = None, then the first attribute path that exists
ExtractRows(obj) ==
    IF HasAttr(obj, "result")
    THEN IF HasAttr(obj.result, "rows") THEN obj.result.rows
         ELSE IF HasAttr(obj.result, "data") /\ HasAttr(obj.result.data, "rows")
              THEN obj.result.data.rows
              ELSE <<>>
    ELSE IF HasAttr(obj, "get_rows") THEN obj.get_rows
    ELSE IF HasAttr(obj, "rows") THEN obj.rows
    ELSE <<>>

\* The text of the exception raised for a tier rejection.
CapabilityText ==
    {"paid plan", "use query ids instead", "set arbitrum_query_id and optimism_query_id"}

\* "paid plan" in error_msg.lower() or "upgrade" in error_msg.lower()
IsCapabilityError(error_msg) == "paid plan" \in error_msg \/ "upgrade" \in error_msg

query_dune_api_by_sql(client, query_name, resp) ==
    IF ~client THEN Return(EmptyFrame)
    ELSE IF resp.kind = "error"
         THEN IF IsCapabilityError(resp.text)
              THEN Raise("Exception", CapabilityText)
              ELSE Raise("Exception", {"dune api error for", query_name} \cup resp.text)
         ELSE LET rows == ExtractRows(resp.obj) IN
              IF Len(rows) > 0
              THEN Return(NormaliseDate(DataFrame(rows, resp.text)))
              ELSE Return(EmptyFrame)

-----------------------------------------------------------------------------
(* merge_data *)

Combine(l, r) ==
    [k \in (DOMAIN l) \cup (DOMAIN r) |-> IF k \in DOMAIN l THEN l[k] ELSE r[k]]

\* The rows of r that share l's date, joined to l, in r's order.
RECURSIVE MatchesOf(_, _, _)
MatchesOf(l, R, j) ==
    IF j > Len(R) THEN <<>>
    ELSE (IF R[j].date = l.date THEN <<Combine(l, R[j])>> ELSE <<>>)
         \o MatchesOf(l, R, j + 1)

\* pd.merge(L, R, on='date', how='inner'): the left rows' order is kept
RECURSIVE InnerJoin(_, _, _)
InnerJoin(L, R, i) ==
    IF i > Len(L) THEN <<>>
    ELSE MatchesOf(L[i], R, 1) \o InnerJoin(L, R, i + 1)

\* A plausible slip: how='left' keeps the left rows that have no match.
RECURSIVE LeftJoin(_, _, _)
LeftJoin(L, R, i) ==
    IF i > Len(L) THEN <<>>
    ELSE (IF MatchesOf(L[i], R, 1) = <<>> THEN <<L[i]>> ELSE MatchesOf(L[i], R, 1))
         \o LeftJoin(L, R, i + 1)

merge_data_left(tvl, dune) ==
    IF IsEmpty(tvl) \/ IsEmpty(dune) THEN Return(EmptyFrame)
    ELSE IF "date" \notin tvl.cols \/ "date" \notin dune.cols
         THEN Raise("KeyError", {"date"})
         ELSE Return([cols |-> tvl.cols \cup dune.cols,
                      rows |-> LeftJoin(tvl.rows, dune.rows, 1),
                      text |-> tvl.text \cup dune.text])

merge_data(tvl, dune) ==
    IF IsEmpty(tvl) \/ IsEmpty(dune) THEN Return(EmptyFrame)
    ELSE IF "date" \notin tvl.cols \/ "date" \notin dune.cols
         THEN Raise("KeyError", {"date"})
         ELSE Return([cols |-> tvl.cols \cup dune.cols,
                      rows |-> InnerJoin(tvl.rows, dune.rows, 1),
                      text |-> tvl.text \cup dune.text])

-----------------------------------------------------------------------------
(* Series.corr (Pearson) and the "{:.2f}" format *)

RECURSIVE SumProd(_, _, _, _)
SumProd(rows, a, b, i) ==
    IF i > Len(rows) THEN 0 ELSE rows[i][a] * rows[i][b] + SumProd(rows, a, b, i + 1)

RECURSIVE Sum(_, _, _)
Sum(rows, a, i) ==
    IF i > Len(rows) THEN 0 ELSE rows[i][a] + Sum(rows, a, i + 1)

\* n*Sxy - Sx*Sy, and the same for the variances
Cov(rows, a, b) == Len(rows) * SumProd(rows, a, b, 1) - Sum(rows, a, 1) * Sum(rows, b, 1)

\* A text column cannot be converted to float: the call raises.  A column
\* of zero variance divides by zero: the result is NaN, and nothing raises.
corr(df, a, b) ==
    IF a \in df.text \/ b \in df.text THEN Raise("ValueError", {"could not convert"})
    ELSE LET den2 == Cov(df.rows, a, a) * Cov(df.rows, b, b) IN
         IF den2 = 0 THEN Return([nan |-> TRUE, num |-> 0, den2 |-> 0])
         ELSE Return([nan |-> FALSE, num |-> Cov(df.rows, a, b), den2 |-> den2])

\* f"{x:.2f}": "nan" for NaN, else the value in hundredths, rounded
Hundredths(x) ==
    LET k == CHOOSE k \in 0..100 :
                /\ (k = 0 \/ (2 * k - 1) * (2 * k - 1) * x.den2 <= 40000 * x.num * x.num)
                /\ (k = 100 \/ (2 * k + 1) * (2 * k + 1) * x.den2 > 40000 * x.num * x.num)
    IN IF x.num < 0 THEN 0 - k ELSE k

Format2f(x) == IF x.nan THEN [nan |-> TRUE, hundredths |-> 0]
               ELSE [nan |-> FALSE, hundredths |-> Hundredths(x)]

-----------------------------------------------------------------------------
(* st.cache_data(ttl=3600): one table per decorated function, keyed by the
   call's arguments.  An entry is <<>> (absent) or <<[value, stored]>>. *)

\* A plausible slip: the entry still answers at exactly ttl seconds.
CacheIsFreshInclusive(entries, t) == entries # <<>> /\ t - entries[1].stored <= ttl

\* A stored entry answers calls until ttl seconds after it was stored.
CacheIsFresh(entries, t) == entries # <<>> /\ t - entries[1].stored < ttl

\* The decorated call at time t: the stored value on a hit; on a miss the
\* body runs (body is its result) and a returned value is stored.  A raised
\* exception propagates and stores nothing.
Cached(tbl, key, t, body) ==
    IF CacheIsFresh(tbl[key], t)
    THEN [res |-> Return(tbl[key][1].value), tbl |-> tbl, ran |-> FALSE]
    ELSE [res |-> body,
          tbl |-> IF body.ok
                  THEN [tbl EXCEPT ![key] = <<[value |-> body.val, stored |-> t]>>]
                  ELSE tbl,
          ran |-> TRUE]

-----------------------------------------------------------------------------
(* The process environment *)

\* Values of ARBITRUM_QUERY_ID / OPTIMISM_QUERY_ID, as character sequences;
\* <<>> is an unset (or empty) variable, which `if QUERY_ID:` takes as false.
QueryIdStrings == { <<>>, <<"a", "b", "c">>, <<"7">>, <<"4", "2">> }

DigitValue(ch) ==
    CASE ch = "0" -> 0 [] ch = "1" -> 1 [] ch = "2" -> 2 [] ch = "3" -> 3
      [] ch = "4" -> 4 [] ch = "5" -> 5 [] ch = "6" -> 6 [] ch = "7" -> 7
      [] ch = "8" -> 8 [] ch = "9" -> 9

IsDigit(ch) == ch \in {"0", "1", "2", "3", "4", "5", "6", "7", "8", "9"}

\* int(s) raises ValueError unless s is a numeral
IsNumeral(s) == Len(s) > 0 /\ \A i \in 1..Len(s) : IsDigit(s[i])

RECURSIVE int(_)
int(s) == IF Len(s) = 0 THEN 0
          ELSE 10 * int(SubSeq(s, 1, Len(s) - 1)) + DigitValue(s[Len(s)])

QueryIds == { int(s) : s \in { q \in QueryIdStrings : IsNumeral(q) } }

SqlQuery == [arbitrum |-> "ARBITRUM_SQL_QUERY", optimism |-> "OPTIMISM_SQL_QUERY"]

SqlKeys == { <<c, SqlQuery[d]>> : c \in Chains, d \in Chains }

Environments == [key : BOOLEAN, qid : [Chains -> QueryIdStrings]]

-----------------------------------------------------------------------------
(* State *)

VARIABLES
    pc,          \* the statement of the script that runs next
    env,         \* DUNE_API_KEY is set; the two QUERY_ID variables
    dune_client, \* FALSE is None
    tvl_df,      \* arbitrum_tvl_df, optimism_tvl_df
    dune_df,     \* arbitrum_dune_df, optimism_dune_df
    full_df,     \* arbitrum_full_df, optimism_full_df
    msgs,        \* st.error / st.warning / st.info / st.success / st.toast, in order
    rendered,    \* the presentation sections drawn, in order
    trace,       \* the statements run so far
    calls,       \* the calls of the three cached functions, in order
    uncaught,    \* <<>> or the exception that ended the run
    cache,       \* the three memoisation tables
    now,         \* the clock, in seconds
    hist,        \* per table and key, what earlier calls did
    last         \* <<>> or the most recent direct call of a cached function

vars == <<pc, env, dune_client, tvl_df, dune_df, full_df, msgs, rendered, trace,
          calls, uncaught, cache, now, hist, last>>

scriptVars == <<pc, env, dune_client, tvl_df, dune_df, full_df, msgs, rendered,
                trace, calls, uncaught>>

Msg(fn, id, chain, text) == [fn |-> fn, id |-> id, chain |-> chain, text |-> text]

\* A plausible slip: the query blocks placed before the TVL fetches.
OrderQueriesFirst ==
    << "load_key", "setup", "query_arbitrum", "query_optimism", "tvl_arbitrum",
       "tvl_optimism", "merge_arbitrum", "merge_optimism", "gate", "tiles",
       "charts", "correlation", "raw" >>

\* The script's statements in program order.
Order ==
    << "load_key", "setup", "tvl_arbitrum", "tvl_optimism", "query_arbitrum",
       "query_optimism", "merge_arbitrum", "merge_optimism", "gate", "tiles",
       "charts", "correlation", "raw" >>

TvlStep == [arbitrum |-> "tvl_arbitrum", optimism |-> "tvl_optimism"]

QueryStep == [arbitrum |-> "query_arbitrum", optimism |-> "query_optimism"]

MergeStep == [arbitrum |-> "merge_arbitrum", optimism |-> "merge_optimism"]

IndexOf(step) == CHOOSE i \in 1..Len(Order) : Order[i] = step

\* A plausible slip: a TVL fetch that came back empty is tried once more.
NextStepRetry(step) ==
    IF step = TvlStep["arbitrum"] /\ IsEmpty(tvl_df'["arbitrum"]) /\ Len(calls') < 2
    THEN step
    ELSE IF IndexOf(step) = Len(Order) THEN "done" ELSE Order[IndexOf(step) + 1]

\* The statement after `step`
NextStep(step) ==
    IF IndexOf(step) = Len(Order) THEN "done" ELSE Order[IndexOf(step) + 1]

EmptyTables ==
    [fetch |-> [c \in Chains |-> <<>>],
     by_id |-> [i \in QueryIds |-> <<>>],
     by_sql |-> [k \in SqlKeys |-> <<>>]]

\* Per key: the last call that returned (value, time), the last call that
\* ran the body and returned (value, time), and whether the latest call raised.
NoHistory == [ret |-> <<>>, net |-> <<>>, raised |-> FALSE]

EmptyHistory ==
    [fetch |-> [c \in Chains |-> NoHistory],
     by_id |-> [i \in QueryIds |-> NoHistory],
     by_sql |-> [k \in SqlKeys |-> NoHistory]]

NoFrames == [c \in Chains |-> EmptyFrame]

Init ==
    /\ pc = "load_key"
    /\ env \in Environments
    /\ dune_client = FALSE
    /\ tvl_df = NoFrames
    /\ dune_df = NoFrames
    /\ full_df = NoFrames
    /\ msgs = <<>>
    /\ rendered = <<>>
    /\ trace = <<>>
    /\ calls = <<>>
    /\ uncaught = <<>>
    /\ cache = EmptyTables
    /\ now = 0
    /\ hist = EmptyHistory
    /\ last = <<>>

\* An exception no handler catches ends the run.
Crash(exc, step) ==
    /\ pc' = "crashed"
    /\ uncaught' = <<[type |-> exc.type, text |-> exc.text, at |-> step]>>

-----------------------------------------------------------------------------
(* The script, statement by statement *)

\* DUNE_API_KEY = os.environ.get(...); the client, or None with an error
LoadApiKey ==
    /\ pc = "load_key"
    /\ dune_client' = env.key
    /\ msgs' = IF env.key THEN msgs
               ELSE Append(msgs, Msg("error", "no_api_key", "", {}))
    /\ pc' = NextStep(pc)
    /\ trace' = Append(trace, pc)
    /\ UNCHANGED <<env, tvl_df, dune_df, full_df, rendered, calls, uncaught,
                   cache, now, hist, last>>

\* if not ARBITRUM_QUERY_ID or not OPTIMISM_QUERY_ID: the setup instructions
SetupInstructions ==
    /\ pc = "setup"
    /\ msgs' = IF \E c \in Chains : Len(env.qid[c]) = 0
               THEN Append(msgs, Msg("info", "setup_instructions", "", {}))
               ELSE msgs
    /\ pc' = NextStep(pc)
    /\ trace' = Append(trace, pc)
    /\ UNCHANGED <<env, dune_client, tvl_df, dune_df, full_df, rendered, calls,
                   uncaught, cache, now, hist, last>>

\* One entry of `calls`: the function, the chain it was called for, whether
\* the network call was issued, whether it raised, and, for a backend error,
\* whether the backend refused for the account's tier.
Call(fn, c, net, res, tier) ==
    [fn |-> fn, chain |-> c, net |-> net, raised |-> ~res.ok, tier |-> tier]

\* st.toast; x_tvl_df = fetch_defi_llama_tvl(slug); if x_tvl_df.empty: st.error
FetchTvl(c) ==
    /\ pc = TvlStep[c]
    /\ \E resp \in TvlResponses :
         LET r == Cached(cache.fetch, c, now, fetch_defi_llama_tvl(resp))
             toast == Msg("toast", "toast_tvl", c, {})
         IN /\ cache' = [cache EXCEPT !.fetch = r.tbl]
            /\ calls' = Append(calls,
                               Call("fetch_defi_llama_tvl", c, r.ran, r.res, FALSE))
            /\ IF r.res.ok
               THEN /\ tvl_df' = [tvl_df EXCEPT ![c] = r.res.val]
                    /\ msgs' = IF IsEmpty(r.res.val)
                               THEN msgs \o <<toast, Msg("error", "tvl_error", c, {})>>
                               ELSE Append(msgs, toast)
                    /\ pc' = NextStep(pc)
                    /\ uncaught' = uncaught
               ELSE /\ tvl_df' = tvl_df
                    /\ msgs' = Append(msgs, toast)
                    /\ Crash(r.res.exc, pc)
    /\ trace' = Append(trace, pc)
    /\ UNCHANGED <<env, dune_client, dune_df, full_df, rendered, now, hist, last>>

\* A plausible slip: the caller tests for the other phrase of the function's test.
IsUpgradeError(text) == "upgrade" \in text

\* "paid plan" in str(sql_error).lower()
IsPaidPlanError(text) == "paid plan" \in text

ToastDune(c) == Msg("toast", "toast_dune", c, {})

NoData(c) == Msg("warning", "no_data", c, {})

\* st.error(f"Error querying Dune API for {chain}: {e}")
DuneError(c, exc) ==
    Msg("error", "dune_error", c, {"error querying dune api for", c} \cup exc.text)

\* The query block when QUERY_ID is a numeral: query_dune_api_by_id(int(ID)).
\* The function raises Exception, which `except ValueError` lets through to
\* the outer handler.
QueryById(c) ==
    /\ pc = QueryStep[c]
    /\ IsNumeral(env.qid[c])
    /\ \E resp \in ByIdResponses :
         LET id == int(env.qid[c])
             r == Cached(cache.by_id, id, now,
                         query_dune_api_by_id(dune_client, id, resp))
             net == r.ran /\ dune_client
         IN /\ cache' = [cache EXCEPT !.by_id = r.tbl]
            /\ calls' = Append(calls,
                   Call("query_dune_api_by_id", c, net, r.res,
                        net /\ resp.kind = "error" /\ resp.tier))
            /\ IF r.res.ok
               THEN /\ dune_df' = [dune_df EXCEPT ![c] = r.res.val]
                    /\ msgs' = IF IsEmpty(r.res.val)
                               THEN msgs \o <<ToastDune(c), NoData(c)>>
                               ELSE Append(msgs, ToastDune(c))
               ELSE /\ dune_df' = [dune_df EXCEPT ![c] = EmptyFrame]
                    /\ msgs' = IF r.res.exc.type = "ValueError"
                               THEN msgs \o <<ToastDune(c),
                                              Msg("error", "invalid_query_id", c, {}),
                                              NoData(c)>>
                               ELSE msgs \o <<ToastDune(c), DuneError(c, r.res.exc)>>
    /\ pc' = NextStep(pc)
    /\ trace' = Append(trace, pc)
    /\ UNCHANGED <<env, dune_client, tvl_df, full_df, rendered, uncaught, now,
                   hist, last>>

\* The query block when QUERY_ID is set and no numeral: int() raises
\* ValueError, the inner handler reports it, and the block goes on to the
\* emptiness test with the frame still empty.
QueryInvalidId(c) ==
    /\ pc = QueryStep[c]
    /\ Len(env.qid[c]) > 0
    /\ ~IsNumeral(env.qid[c])
    /\ dune_df' = [dune_df EXCEPT ![c] = EmptyFrame]
    /\ msgs' = msgs \o <<ToastDune(c), Msg("error", "invalid_query_id", c, {}),
                         NoData(c)>>
    /\ pc' = NextStep(pc)
    /\ trace' = Append(trace, pc)
    /\ UNCHANGED <<env, dune_client, tvl_df, full_df, rendered, calls, uncaught,
                   cache, now, hist, last>>

\* The query block when QUERY_ID is not set: the warning, then
\* query_dune_api_by_sql(chain, SQL).  A "paid plan" exception is reported
\* by the inner handler and the block goes on to the emptiness test; any
\* other exception is re-raised to the outer handler.
QueryBySql(c) ==
    /\ pc = QueryStep[c]
    /\ Len(env.qid[c]) = 0
    /\ \E resp \in BySqlResponses :
         LET r == Cached(cache.by_sql, <<c, SqlQuery[c]>>, now,
                         query_dune_api_by_sql(dune_client, c, resp))
             net == r.ran /\ dune_client
             head == <<ToastDune(c), Msg("warning", "query_id_not_set", c, {})>>
         IN /\ cache' = [cache EXCEPT !.by_sql = r.tbl]
            /\ calls' = Append(calls,
                   Call("query_dune_api_by_sql", c, net, r.res,
                        net /\ resp.kind = "error" /\ resp.tier))
            /\ IF r.res.ok
               THEN /\ dune_df' = [dune_df EXCEPT ![c] = r.res.val]
                    /\ msgs' = IF IsEmpty(r.res.val)
                               THEN msgs \o head \o <<NoData(c)>>
                               ELSE msgs \o head
               ELSE /\ dune_df' = [dune_df EXCEPT ![c] = EmptyFrame]
                    /\ msgs' = IF IsPaidPlanError(r.res.exc.text)
                               THEN msgs \o head \o
                                    <<Msg("error", "paid_plan_required", c,
                                          {"paid plan", "please set query_id",
                                           "see setup instructions"}),
                                      NoData(c)>>
                               ELSE msgs \o head \o <<DuneError(c, r.res.exc)>>
    /\ pc' = NextStep(pc)
    /\ trace' = Append(trace, pc)
    /\ UNCHANGED <<env, dune_client, tvl_df, full_df, rendered, uncaught, now,
                   hist, last>>

\* x_full_df = merge_data(x_tvl_df, x_dune_df).  merge_data is memoised with
\* no time-to-live; it is a function of its arguments, so a stored result is
\* the result of running it.
Merge(c) ==
    /\ pc = MergeStep[c]
    /\ LET r == merge_data(tvl_df[c], dune_df[c]) IN
         IF r.ok
         THEN /\ full_df' = [full_df EXCEPT ![c] = r.val]
              /\ pc' = NextStep(pc)
              /\ uncaught' = uncaught
         ELSE /\ full_df' = full_df
              /\ Crash(r.exc, pc)
    /\ trace' = Append(trace, pc)
    /\ UNCHANGED <<env, dune_client, tvl_df, dune_df, msgs, rendered, calls,
                   cache, now, hist, last>>

\* A plausible slip: `and` for `or`.
MergeFailedBoth(arb, op) == IsEmpty(arb) /\ IsEmpty(op)

\* if arbitrum_full_df.empty or optimism_full_df.empty
MergeFailed(arb, op) == IsEmpty(arb) \/ IsEmpty(op)

\* The gate: the merge error and nothing else, or the success line and on
\* to the presentation sections.
Gate ==
    /\ pc = "gate"
    /\ IF MergeFailed(full_df["arbitrum"], full_df["optimism"])
       THEN /\ msgs' = Append(msgs, Msg("error", "merge_failed", "", {}))
            /\ pc' = "done"
       ELSE /\ msgs' = Append(msgs, Msg("success", "loaded", "", {}))
            /\ pc' = NextStep(pc)
    /\ trace' = Append(trace, pc)
    /\ UNCHANGED <<env, dune_client, tvl_df, dune_df, full_df, rendered, calls,
                   uncaught, cache, now, hist, last>>

Section(name, values) == [section |-> name, values |-> values]

\* df.iloc[-1]
Latest(df) == df.rows[Len(df.rows)]

\* The four latest-value tiles; a missing column or an empty frame raises.
Tiles ==
    /\ pc = "tiles"
    /\ LET arb == full_df["arbitrum"]
           op == full_df["optimism"]
           need == {"tvl_usd", "daily_active_users"}
       IN IF Len(arb.rows) = 0 \/ Len(op.rows) = 0
          THEN /\ rendered' = rendered
               /\ Crash([type |-> "IndexError", text |-> {}], pc)
          ELSE IF ~(need \subseteq arb.cols /\ need \subseteq op.cols)
          THEN /\ rendered' = rendered
               /\ Crash([type |-> "KeyError", text |-> need], pc)
          ELSE /\ rendered' = Append(rendered,
                     Section("tiles", << Latest(arb).tvl_usd, Latest(op).tvl_usd,
                                         Latest(arb).daily_active_users,
                                         Latest(op).daily_active_users >>))
               /\ pc' = NextStep(pc)
               /\ uncaught' = uncaught
    /\ trace' = Append(trace, pc)
    /\ UNCHANGED <<env, dune_client, tvl_df, dune_df, full_df, msgs, calls,
                   cache, now, hist, last>>

\* The four charts.
Charts ==
    /\ pc = "charts"
    /\ rendered' = rendered \o << Section("chart_tvl", <<>>), Section("chart_dau", <<>>),
                                  Section("chart_tx", <<>>), Section("chart_gas", <<>>) >>
    /\ pc' = NextStep(pc)
    /\ trace' = Append(trace, pc)
    /\ UNCHANGED <<env, dune_client, tvl_df, dune_df, full_df, msgs, calls,
                   uncaught, cache, now, hist, last>>

\* try: both coefficients, then both metrics; except Exception: st.warning
Correlation ==
    /\ pc = "correlation"
    /\ LET a == corr(full_df["arbitrum"], "avg_gas_fee_usd", "transaction_count")
           o == corr(full_df["optimism"], "avg_gas_fee_usd", "transaction_count")
       IN IF a.ok /\ o.ok
          THEN /\ rendered' = Append(rendered,
                     Section("corr_metrics", << Format2f(a.val), Format2f(o.val) >>))
               /\ msgs' = msgs
          ELSE /\ rendered' = rendered
               /\ msgs' = Append(msgs, Msg("warning", "corr_failed", "", {}))
    /\ pc' = NextStep(pc)
    /\ trace' = Append(trace, pc)
    /\ UNCHANGED <<env, dune_client, tvl_df, dune_df, full_df, calls, uncaught,
                   cache, now, hist, last>>

\* The raw-data expander.
RawData ==
    /\ pc = "raw"
    /\ rendered' = Append(rendered, Section("raw", <<>>))
    /\ pc' = NextStep(pc)
    /\ trace' = Append(trace, pc)
    /\ UNCHANGED <<env, dune_client, tvl_df, dune_df, full_df, msgs, calls,
                   uncaught, cache, now, hist, last>>

Next ==
    \/ LoadApiKey
    \/ SetupInstructions
    \/ \E c \in Chains : FetchTvl(c)
    \/ \E c \in Chains : QueryById(c)
    \/ \E c \in Chains : QueryInvalidId(c)
    \/ \E c \in Chains : QueryBySql(c)
    \/ \E c \in Chains : Merge(c)
    \/ Gate
    \/ Tiles
    \/ Charts
    \/ Correlation
    \/ RawData

Spec == Init /\ [][Next]_vars

-----------------------------------------------------------------------------
(* merge_data on its own: the inputs drawn from every series of at most
   MaxLen rows over the days 0..MaxDay *)

RowSeqs(rows) == UNION { [1..n -> rows] : n \in 0..MaxLen }

TvlFrames ==
    { IF Len(r) = 0 THEN EmptyTvlFrame
      ELSE [cols |-> {"date", "tvl_usd"}, rows |-> r, text |-> {}] :
      r \in RowSeqs({ [date |-> d, tvl_usd |-> 10 + d] : d \in 0..MaxDay }) }

DuneFrames ==
    { IF Len(r) = 0 THEN EmptyFrame
      ELSE [cols |-> {"date", "daily_active_users", "transaction_count",
                      "avg_gas_fee_usd"},
            rows |-> r, text |-> {}] :
      r \in RowSeqs({ DuneRow(d, 5 + d, 3) : d \in 0..MaxDay }) }

InitMerge ==
    /\ pc = "merge_arbitrum"
    /\ env = [key |-> TRUE, qid |-> [c \in Chains |-> <<"7">>]]
    /\ dune_client = TRUE
    /\ \E a \in TvlFrames : tvl_df = [c \in Chains |-> IF c = "arbitrum" THEN a ELSE EmptyTvlFrame]
    /\ \E b \in DuneFrames : dune_df = [c \in Chains |-> IF c = "arbitrum" THEN b ELSE EmptyFrame]
    /\ full_df = NoFrames
    /\ msgs = <<>>
    /\ rendered = <<>>
    /\ trace = <<>>
    /\ calls = <<>>
    /\ uncaught = <<>>
    /\ cache = EmptyTables
    /\ now = 0
    /\ hist = EmptyHistory
    /\ last = <<>>

NextMerge == Merge("arbitrum")

SpecMerge == InitMerge /\ [][NextMerge]_vars

-----------------------------------------------------------------------------
(* The three cached functions called directly, at any time, in any order *)

FetchSample ==
    { [kind |-> "conn_error"],
      [kind |-> "response", status |-> 200,
       body |-> [type |-> "array", items |-> <<TvlItem(0, 10)>>]],
      [kind |-> "response", status |-> 200, body |-> [type |-> "array", items |-> <<>>]] }

ByIdSample ==
    { [kind |-> "frame", data |-> [rows |-> <<DuneRow(0, 5, 3)>>, text |-> {}]],
      [kind |-> "frame", data |-> [rows |-> <<>>, text |-> {}]],
      [kind |-> "error", text |-> {"timeout"}, tier |-> FALSE] }

BySqlSample ==
    { [kind |-> "result", text |-> {}, obj |-> [rows |-> <<DuneRow(0, 5, 3)>>]],
      [kind |-> "error", text |-> {"paid plan"}, tier |-> TRUE] }

CallCount == IF last = <<>> THEN 0 ELSE last[1].n

\* What a call leaves in the history of its key.
Recorded(h, r, t) ==
    [ret |-> IF r.res.ok THEN <<[value |-> r.res.val, at |-> t]>> ELSE h.ret,
     net |-> IF r.res.ok /\ r.ran THEN <<[value |-> r.res.val, at |-> t]>> ELSE h.net,
     raised |-> ~r.res.ok]

\* The record of the latest call: what it did, and its key's history before.
LastCall(fn, r, h) ==
    << [fn |-> fn, hit |-> ~r.ran, ok |-> r.res.ok,
        value |-> IF r.res.ok THEN r.res.val ELSE EmptyFrame,
        at |-> now, before |-> h, n |-> CallCount + 1] >>

CallFetch(slug) ==
    /\ pc = "idle"
    /\ CallCount < MaxCalls
    /\ \E resp \in FetchSample :
         LET r == Cached(cache.fetch, slug, now, fetch_defi_llama_tvl(resp)) IN
         /\ cache' = [cache EXCEPT !.fetch = r.tbl]
         /\ hist' = [hist EXCEPT !.fetch[slug] = Recorded(@, r, now)]
         /\ last' = LastCall("fetch_defi_llama_tvl", r, hist.fetch[slug])
    /\ UNCHANGED <<scriptVars, now>>

CallById(id) ==
    /\ pc = "idle"
    /\ CallCount < MaxCalls
    /\ \E resp \in ByIdSample :
         LET r == Cached(cache.by_id, id, now,
                         query_dune_api_by_id(dune_client, id, resp)) IN
         /\ cache' = [cache EXCEPT !.by_id = r.tbl]
         /\ hist' = [hist EXCEPT !.by_id[id] = Recorded(@, r, now)]
         /\ last' = LastCall("query_dune_api_by_id", r, hist.by_id[id])
    /\ UNCHANGED <<scriptVars, now>>

CallBySql(key) ==
    /\ pc = "idle"
    /\ CallCount < MaxCalls
    /\ \E resp \in BySqlSample :
         LET r == Cached(cache.by_sql, key, now,
                         query_dune_api_by_sql(dune_client, key[1], resp)) IN
         /\ cache' = [cache EXCEPT !.by_sql = r.tbl]
         /\ hist' = [hist EXCEPT !.by_sql[key] = Recorded(@, r, now)]
         /\ last' = LastCall("query_dune_api_by_sql", r, hist.by_sql[key])
    /\ UNCHANGED <<scriptVars, now>>

\* Time passes between calls.
Tick ==
    /\ pc = "idle"
    /\ now + TickStep <= MaxTime
    /\ now' = now + TickStep
    /\ UNCHANGED <<scriptVars, cache, hist, last>>

InitCache ==
    /\ pc = "idle"
    /\ env = [key |-> TRUE, qid |-> [c \in Chains |-> <<"7">>]]
    /\ dune_client = TRUE
    /\ tvl_df = NoFrames
    /\ dune_df = NoFrames
    /\ full_df = NoFrames
    /\ msgs = <<>>
    /\ rendered = <<>>
    /\ trace = <<>>
    /\ calls = <<>>
    /\ uncaught = <<>>
    /\ cache = EmptyTables
    /\ now = 0
    /\ hist = EmptyHistory
    /\ last = <<>>

NextCache ==
    \/ \E slug \in Chains : CallFetch(slug)
    \/ \E id \in QueryIds : CallById(id)
    \/ \E c \in Chains : CallBySql(<<c, SqlQuery[c]>>)
    \/ Tick

SpecCache == InitCache /\ [][NextCache]_vars

-----------------------------------------------------------------------------
(* Properties *)

Ran(step) == \E i \in 1..Len(trace) : trace[i] = step

HasMsg(id, c) == \E i \in 1..Len(msgs) : msgs[i].id = id /\ msgs[i].chain = c

CountMsg(id, c) ==
    Cardinality({ i \in 1..Len(msgs) : msgs[i].id = id /\ msgs[i].chain = c })

CallsOf(fn, c) ==
    { i \in 1..Len(calls) : calls[i].fn = fn /\ calls[i].chain = c }

HasSection(name) == \E i \in 1..Len(rendered) : rendered[i].section = name

\* C1: for series with at most one record per date, merge_data(A, B) has a
\* record for date d exactly when d is a date of A and a date of B; and the
\* result is empty whenever A or B is empty.
C1_MergeIsInnerJoin ==
    \A c \in Chains :
        Ran(MergeStep[c]) /\ pc # "crashed" =>
            /\ (IsEmpty(tvl_df[c]) \/ IsEmpty(dune_df[c])) => IsEmpty(full_df[c])
            /\ (UniqueDates(tvl_df[c]) /\ UniqueDates(dune_df[c])) =>
                   Dates(full_df[c]) = Dates(tvl_df[c]) \cap Dates(dune_df[c])

\* C1 witness: a merge of two series with one record per date, where a date
\* of A is missing from B, a date of B is missing from A, and one is shared.
C1_Witness ==
    /\ Ran(MergeStep["arbitrum"])
    /\ UniqueDates(tvl_df["arbitrum"]) /\ UniqueDates(dune_df["arbitrum"])
    /\ Dates(tvl_df["arbitrum"]) \ Dates(dune_df["arbitrum"]) # {}
    /\ Dates(dune_df["arbitrum"]) \ Dates(tvl_df["arbitrum"]) # {}
    /\ Dates(full_df["arbitrum"]) # {}

\* C2: fetch_defi_llama_tvl never raises: whatever the HTTP call produces,
\* it returns a series (an empty one on failure).
C2_FetchNeverRaises ==
    \A i \in 1..Len(calls) :
        calls[i].fn = "fetch_defi_llama_tvl" => ~calls[i].raised

\* C3: the series fetch_defi_llama_tvl returns is sorted ascending by date
\* and holds no two records of the same date, whatever the provider's order.
C3_TvlSortedNoDuplicates ==
    \A c \in Chains :
        Ran(TvlStep[c]) /\ ~(pc = "crashed" /\ uncaught[1].at = TvlStep[c]) =>
            SortedByDate(tvl_df[c])

\* C4: with no query id configured the run calls the by-body query and never
\* the by-reference one; a tier rejection reaches the user as the
\* capability error that tells them to set the query id, and not as the
\* generic error; any other backend failure reaches the user as the generic
\* error naming the chain, and not as the capability error.
C4_BodyFallbackErrors ==
    \A c \in Chains :
        Len(env.qid[c]) = 0 /\ Ran(QueryStep[c]) =>
            /\ CallsOf("query_dune_api_by_id", c) = {}
            /\ Cardinality(CallsOf("query_dune_api_by_sql", c)) = 1
            /\ \A i \in CallsOf("query_dune_api_by_sql", c) :
                 /\ calls[i].raised /\ calls[i].tier =>
                      /\ \E j \in 1..Len(msgs) :
                            /\ msgs[j] = Msg("error", "paid_plan_required", c, msgs[j].text)
                            /\ "please set query_id" \in msgs[j].text
                      /\ ~HasMsg("dune_error", c)
                 /\ calls[i].raised /\ ~calls[i].tier =>
                      /\ \E j \in 1..Len(msgs) :
                            /\ msgs[j] = Msg("error", "dune_error", c, msgs[j].text)
                            /\ c \in msgs[j].text
                      /\ ~HasMsg("paid_plan_required", c)

\* C4 witness: both cases in one run: arbitrum's by-body query refused for
\* the tier, optimism's failing otherwise.
C4_Witness ==
    /\ pc = "done"
    /\ Len(env.qid["arbitrum"]) = 0 /\ Len(env.qid["optimism"]) = 0
    /\ \E i \in CallsOf("query_dune_api_by_sql", "arbitrum") :
          calls[i].raised /\ calls[i].tier
    /\ \E i \in CallsOf("query_dune_api_by_sql", "optimism") :
          calls[i].raised /\ ~calls[i].tier
    /\ HasMsg("paid_plan_required", "arbitrum")
    /\ HasMsg("dune_error", "optimism")

\* The chain's query call returned (the client exists, nothing raised).
QuerySucceeded(c) ==
    /\ dune_client
    /\ \E i \in CallsOf("query_dune_api_by_id", c) \cup CallsOf("query_dune_api_by_sql", c) :
          ~calls[i].raised

\* The chain's query failed: the id is no number, the call raised, or there
\* is no API key.
QueryFailed(c) ==
    \/ ~dune_client
    \/ Len(env.qid[c]) > 0 /\ ~IsNumeral(env.qid[c])
    \/ \E i \in CallsOf("query_dune_api_by_id", c) \cup CallsOf("query_dune_api_by_sql", c) :
          calls[i].raised

QueryFailureMessages(c) ==
    CountMsg("invalid_query_id", c) + CountMsg("paid_plan_required", c)
      + CountMsg("dune_error", c)

\* C5: the "returned no data" warning of a chain is emitted only when that
\* chain's query call succeeded with zero rows; when the query failed, a
\* failure message is emitted and the warning is not.
C5_NoDataOnlyOnSuccess ==
    \A c \in Chains :
        Ran(QueryStep[c]) =>
            /\ HasMsg("no_data", c) => QuerySucceeded(c) /\ IsEmpty(dune_df[c])
            /\ QueryFailed(c) =>
                 /\ QueryFailureMessages(c) > 0 \/ HasMsg("no_api_key", "")
                 /\ ~HasMsg("no_data", c)

\* C6: when a chain's merged series is empty the run emits the merge error
\* and renders no presentation section; sections are rendered only when
\* both merged series are non-empty.
C6_NoPartialDashboard ==
    /\ rendered # <<>> =>
          /\ Ran("gate")
          /\ ~IsEmpty(full_df["arbitrum"]) /\ ~IsEmpty(full_df["optimism"])
    /\ Ran("gate") /\ (IsEmpty(full_df["arbitrum"]) \/ IsEmpty(full_df["optimism"])) =>
          /\ HasMsg("merge_failed", "")
          /\ rendered = <<>>
          /\ pc = "done"

\* C6 witness: a finished run where one chain's merged series is empty and
\* the other's is not.
C6_Witness ==
    /\ pc = "done"
    /\ IsEmpty(full_df["arbitrum"])
    /\ ~IsEmpty(full_df["optimism"])
    /\ HasMsg("merge_failed", "")

\* avg_gas_fee_usd is constant over the merged series and transaction_count
\* is not.
ConstantFee(df) ==
    /\ "avg_gas_fee_usd" \notin df.text
    /\ Len(df.rows) > 1
    /\ \A i, j \in 1..Len(df.rows) : df.rows[i].avg_gas_fee_usd = df.rows[j].avg_gas_fee_usd
    /\ \E i, j \in 1..Len(df.rows) :
          df.rows[i].transaction_count # df.rows[j].transaction_count

\* C7: a degenerate correlation (constant fee, varying transaction count)
\* is reported as a warning instead of a correlation value, and the raw-data
\* view is still rendered.
C7_DegenerateCorrelationWarns ==
    Ran("correlation") /\ (\E c \in Chains : ConstantFee(full_df[c])) =>
        /\ HasMsg("corr_failed", "")
        /\ ~HasSection("corr_metrics")
        /\ pc = "done" => HasSection("raw")

\* The order the claim states, and the statements of `trace` that are in it.
ClaimedOrder ==
    << "tvl_arbitrum", "tvl_optimism", "query_arbitrum", "query_optimism",
       "merge_arbitrum", "merge_optimism", "gate" >>

Operations == SelectSeq(trace, LAMBDA step : \E i \in 1..Len(ClaimedOrder) : ClaimedOrder[i] = step)

\* C8: the operations run in the order TVL arbitrum, TVL optimism, query
\* arbitrum, query optimism, merge arbitrum, merge optimism, rendering; a
\* fetch or query that fails (an empty result, a caught exception) skips and
\* reorders nothing: the run stops early only on an exception nothing
\* catches, and a finished run has run them all.
C8_FixedOrder ==
    /\ Operations = SubSeq(ClaimedOrder, 1, Len(Operations))
    /\ pc = "done" => Operations = ClaimedOrder
    /\ \A i \in 1..Len(ClaimedOrder) :
          pc = ClaimedOrder[i] => Len(Operations) = i - 1
    /\ pc = "crashed" =>
          /\ uncaught # <<>>
          /\ uncaught[1].at \notin {QueryStep[c] : c \in Chains}
          /\ \A c \in Chains : uncaught[1].at = TvlStep[c] =>
                \E i \in CallsOf("fetch_defi_llama_tvl", c) : calls[i].raised

\* C8 witness: a finished run in which a TVL fetch came back empty and a
\* query raised an exception that was caught.
C8_Witness ==
    /\ pc = "done"
    /\ HasMsg("tvl_error", "arbitrum")
    /\ HasMsg("dune_error", "arbitrum")
    /\ HasMsg("paid_plan_required", "optimism")
    /\ Ran("merge_optimism")

\* The most recent direct call.
L == last[1]

\* C9 as stated: a call whose arguments equal those of an earlier call that
\* returned a value less than ttl seconds ago issues no network call and
\* returns that value.
C9_HitAfterAnyReturn ==
    last # <<>> /\ L.before.ret # <<>> /\ L.at - L.before.ret[1].at < ttl =>
        L.hit /\ L.ok /\ L.value = L.before.ret[1].value

\* C9 amended: the window runs from the call that issued the network call
\* and stored the value, not from later calls answered from the cache.  A
\* call less than ttl seconds after it issues no network call and returns
\* the stored value (an empty series too); a call at or after ttl seconds,
\* or after a call that raised, or the first call for its arguments, issues
\* the network call.  The value returned on a hit is the one stored under
\* the same function and arguments.
C9_HitWithinTtlOfStore ==
    last # <<>> =>
        /\ L.before.net # <<>> /\ L.at - L.before.net[1].at < ttl =>
              L.hit /\ L.ok /\ L.value = L.before.net[1].value
        /\ L.before.net = <<>> \/ L.at - L.before.net[1].at >= ttl => ~L.hit
        /\ L.before.raised => ~L.hit

\* C9 witness: a cache hit that returns a stored empty series, for a key
\* whose window has been outlived once before.
C9_Witness ==
    /\ last # <<>>
    /\ L.hit
    /\ IsEmpty(L.value)
    /\ L.at >= ttl
    /\ L.before.ret # <<>> /\ L.before.ret[1].at > L.before.net[1].at

\* The failure messages a TVL fetch failure of chain c has produced: the
\* script's error line, or the exception display when the exception ended
\* the run.
TvlFailureMessages(c) ==
    CountMsg("tvl_error", c)
      + (IF uncaught # <<>> /\ uncaught[1].at = TvlStep[c] THEN 1 ELSE 0)

NetworkCalls(fn, c) == { i \in CallsOf(fn, c) : calls[i].net }

\* C10: no retries: in a run each external operation is issued at most once
\* per chain, a by-reference query is never followed by a by-body attempt,
\* and each failure (TVL fetch, capability, generic query, invalid id)
\* produces exactly one failure message.
C10_NoRetriesOneMessage ==
    \A c \in Chains :
        /\ \A fn \in {"fetch_defi_llama_tvl", "query_dune_api_by_id", "query_dune_api_by_sql"} :
              /\ Cardinality(NetworkCalls(fn, c)) <= 1
              /\ Cardinality(CallsOf(fn, c)) <= 1
        /\ CallsOf("query_dune_api_by_id", c) = {} \/ CallsOf("query_dune_api_by_sql", c) = {}
        /\ TvlFailureMessages(c) <= 1
        /\ (\E i \in CallsOf("fetch_defi_llama_tvl", c) :
                calls[i].raised \/ IsEmpty(tvl_df[c])) => TvlFailureMessages(c) = 1
        /\ QueryFailureMessages(c) <= 1
        /\ (\E i \in CallsOf("query_dune_api_by_sql", c) : calls[i].raised /\ calls[i].tier) =>
              CountMsg("paid_plan_required", c) = 1
        /\ (\E i \in CallsOf("query_dune_api_by_sql", c) : calls[i].raised /\ ~calls[i].tier) =>
              CountMsg("dune_error", c) = 1
        /\ (\E i \in CallsOf("query_dune_api_by_id", c) : calls[i].raised) =>
              CountMsg("dune_error", c) = 1
        /\ (Ran(QueryStep[c]) /\ Len(env.qid[c]) > 0 /\ ~IsNumeral(env.qid[c])) =>
              CountMsg("invalid_query_id", c) = 1

\* C10 witness: a finished run with an empty TVL fetch, a by-reference
\* query that failed, and an id that is no number.
C10_Witness ==
    /\ pc = "done"
    /\ HasMsg("tvl_error", "arbitrum")
    /\ \E i \in CallsOf("query_dune_api_by_id", "arbitrum") : calls[i].raised /\ calls[i].net
    /\ HasMsg("invalid_query_id", "optimism")

====
